---------------------------- MODULE Spec2Model ----------------------------
(***************************************************************************)
(* Model of src/main.py: the force-merged pull request report.             *)
(*                                                                         *)
(* A run resolves the date window (calculate_enddate_if_needed), pages     *)
(* through the closed pull requests (get_merged_prs), fetches and scans    *)
(* the comments of every pull request kept (main) and prints the report.   *)
(*                                                                         *)
(* A datetime is the tuple <<year, month, day, hour, minute, second,       *)
(* microsecond>>, compared field by field as Python compares datetimes.    *)
(* A string is the tuple of its characters.  None, the empty string and    *)
(* an unbound local are the empty tuple.                                   *)
(***************************************************************************)
EXTENDS Integers, Sequences, FiniteSets, TLC

VARIABLES
    start_date,        \* main's start_date argument
    end_arg,           \* main's end_date argument (None when --enddate is absent)
    end_date,          \* main's end_date after line 86
    pc,                \* position of the run
    page,              \* get_merged_prs: page
    shouldContinue,    \* get_merged_prs: shouldContinue
    data,              \* get_merged_prs: data, the page being iterated
    idx,               \* get_merged_prs: position of the for loop in data
    merged_at,         \* get_merged_prs: local merged_at (None while unbound)
    prs,               \* get_merged_prs: prs, then main's merged_prs
    prIdx,             \* main: position of the for loop in merged_prs
    pr_merged_at,      \* main: local pr_merged_at (None while unbound)
    force_merged_prs,  \* main: force_merged_prs
    requests,          \* history: every HTTP request made, with its response
    output,            \* what the report printed (lines 115-123) to standard output
    error              \* the exception that ended the run, "none" otherwise

vars == <<start_date, end_arg, end_date, pc, page, shouldContinue, data, idx,
          merged_at, prs, prIdx, pr_merged_at, force_merged_prs, requests,
          output, error>>

None == <<>>

-----------------------------------------------------------------------------
(* Bounds of the model.                                                    *)

\* pages of the pull request listing that may hold items
MaxPages == 2
\* items the listing returns in all over one run
MaxItems == 2
\* comments the platform returns in all over one run
MaxComments == 4

-----------------------------------------------------------------------------
(* Calendar arithmetic of the datetime and calendar modules, as used by    *)
(* calculate_enddate_if_needed.                                            *)

\* datetime.MAXYEAR: the last year a datetime can hold
MAXYEAR == 9999

\* calendar.isleap
isleap(year) == year % 4 = 0 /\ (year % 100 # 0 \/ year % 400 = 0)

\* calendar.mdays
mdays == <<31, 28, 31, 30, 31, 30, 31, 31, 30, 31, 30, 31>>

\* a month length that takes every fourth year for a leap year
monthrange_century_blind(year, month) ==
    mdays[month] + (IF month = 2 /\ year % 4 = 0 THEN 1 ELSE 0)

\* calendar.monthrange(year, month)[1]: the number of days of the month
monthrange(year, month) ==
    mdays[month] + (IF month = 2 /\ isleap(year) THEN 1 ELSE 0)

\* days before January 1st of year
days_before_year(year) ==
    LET y == year - 1
    IN  y * 365 + (y \div 4) - (y \div 100) + (y \div 400)

RECURSIVE days_before_month(_, _)
\* days of the year before the first day of month
days_before_month(year, month) ==
    IF month = 1 THEN 0
    ELSE days_before_month(year, month - 1) + monthrange(year, month - 1)

\* date.toordinal: January 1st of year 1 is day 1
ymd2ord(year, month, day) ==
    days_before_year(year) + days_before_month(year, month) + day

\* date.fromordinal
ord2ymd(n) ==
    LET n0   == n - 1
        n400 == n0 \div 146097
        r400 == n0 % 146097
        n100 == r400 \div 36524
        r100 == r400 % 36524
        n4   == r100 \div 1461
        r4   == r100 % 1461
        n1   == r4 \div 365
        r1   == r4 % 365
        year == n400 * 400 + n100 * 100 + n4 * 4 + n1 + 1
    IN  IF n1 = 4 \/ n100 = 4
        THEN <<year - 1, 12, 31>>
        ELSE LET month == CHOOSE m \in 1..12 :
                              /\ days_before_month(year, m) <= r1
                              /\ r1 < days_before_month(year, m) + monthrange(year, m)
             IN  <<year, month, r1 - days_before_month(year, month) + 1>>

\* timedelta(days=30)
DeltaDays == 30

\* the result of an addition that leaves the range of datetime
OverflowError == <<0>>

\* an addition of one day too many
add_31_days(dt) ==
    LET n == ymd2ord(dt[1], dt[2], dt[3]) + DeltaDays + 1
        d == ord2ymd(n)
    IN  IF d[1] > MAXYEAR THEN OverflowError
        ELSE <<d[1], d[2], d[3], dt[4], dt[5], dt[6], dt[7]>>

\* start_date + datetime.timedelta(days=30)
add_timedelta(dt) ==
    LET n == ymd2ord(dt[1], dt[2], dt[3]) + DeltaDays
        d == ord2ymd(n)
    IN  IF d[1] > MAXYEAR THEN OverflowError
        ELSE <<d[1], d[2], d[3], dt[4], dt[5], dt[6], dt[7]>>

\* .replace(hour=23, minute=59, second=59, microsecond=999999)
end_of_day(dt) == <<dt[1], dt[2], dt[3], 23, 59, 59, 999999>>

calculate_enddate_if_needed(start, end) ==
    IF end = None
    THEN IF start[3] = 1
         THEN end_of_day(<<start[1], start[2], monthrange(start[1], start[2]),
                           start[4], start[5], start[6], start[7]>>)
         ELSE LET sum == add_timedelta(start)
              IN  IF sum = OverflowError THEN OverflowError ELSE end_of_day(sum)
    ELSE end

-----------------------------------------------------------------------------
(* Strings and timestamps.                                                 *)

Digits == <<"0", "1", "2", "3", "4", "5", "6", "7", "8", "9">>

DigitValue(c) == CHOOSE d \in 0..9 : Digits[d + 1] = c

RECURSIVE int(_)
\* int(s) of a string of decimal digits
int(s) ==
    IF s = <<>> THEN 0
    ELSE 10 * int(SubSeq(s, 1, Len(s) - 1)) + DigitValue(s[Len(s)])

D2(n) == <<Digits[((n \div 10) % 10) + 1], Digits[(n % 10) + 1]>>

\* the platform's rendering of a merge time, "%Y-%m-%dT%H:%M:%SZ"
isoformat_z(dt) ==
    D2(dt[1] \div 100) \o D2(dt[1]) \o <<"-">> \o D2(dt[2]) \o <<"-">> \o D2(dt[3])
        \o <<"T">> \o D2(dt[4]) \o <<":">> \o D2(dt[5]) \o <<":">> \o D2(dt[6]) \o <<"Z">>

\* datetime.datetime.strptime(s, "%Y-%m-%dT%H:%M:%SZ")
strptime(s) ==
    <<int(SubSeq(s, 1, 4)), int(SubSeq(s, 6, 7)), int(SubSeq(s, 9, 10)),
      int(SubSeq(s, 12, 13)), int(SubSeq(s, 15, 16)), int(SubSeq(s, 18, 19)), 0>>

RECURSIVE lt(_, _)
\* a < b on datetimes: the first differing field decides
lt(a, b) ==
    IF a = <<>> THEN FALSE
    ELSE IF Head(a) # Head(b) THEN Head(a) < Head(b)
    ELSE lt(Tail(a), Tail(b))

le(a, b) == a = b \/ lt(a, b)

\* a window that leaves out its start
in_window_exclusive_start(start, m, end) == lt(start, m) /\ le(m, end)

\* a window that never ends
in_window_without_end(start, m, end) == le(start, m)

\* start_date <= merged_at <= end_date
in_window(start, m, end) == le(start, m) /\ le(m, end)

\* s.split("T")[0]: the part of s before its first "T", all of s without one
split_T_0(s) ==
    IF \E i \in 1..Len(s) : s[i] = "T"
    THEN LET first == CHOOSE i \in 1..Len(s) :
                          s[i] = "T" /\ \A j \in 1..(i - 1) : s[j] # "T"
         IN  SubSeq(s, 1, first - 1)
    ELSE s

\* the marker of line 103
FORCE_MERGE == <<"F", "O", "R", "C", "E", "_", "M", "E", "R", "G", "E">>

\* str.lower on the letters of the marker
lower(c) ==
    CASE c = "F" -> "f" [] c = "O" -> "o" [] c = "R" -> "r" [] c = "C" -> "c"
      [] c = "E" -> "e" [] c = "M" -> "m" [] c = "G" -> "g" [] OTHER -> c

\* a match that ignores case
contains_ignoring_case(needle, hay) ==
    \E i \in 0..(Len(hay) - Len(needle)) :
        \A k \in 1..Len(needle) : lower(hay[i + k]) = lower(needle[k])

\* needle in hay
contains(needle, hay) ==
    \E i \in 0..(Len(hay) - Len(needle)) :
        SubSeq(hay, i + 1, i + Len(needle)) = needle

-----------------------------------------------------------------------------
(* The inputs of a run and the answers of the platform.                    *)

repo == <<"acme", "/", "widgets">>

midnight(y, m, d) == <<y, m, d, 0, 0, 0, 0>>

\* --startdate and --enddate as line 128 and line 131 normalise them
Windows ==
    { <<midnight(2024, 3, 1), None>>,
      <<midnight(2024, 3, 2), None>>,
      <<midnight(2024, 3, 1), end_of_day(midnight(2024, 3, 15))>> }

\* merge times around the bounds of the windows
MergeTimes ==
    { <<2024, 2, 29, 23, 59, 59, 0>>, <<2024, 3, 1, 0, 0, 0, 0>>,
      <<2024, 3, 31, 23, 59, 59, 0>>, <<2024, 4, 1, 0, 0, 0, 0>> }

\* the merged_at field of an item: null for a closed, unmerged pull request
MergedAtValues == {None} \cup { isoformat_z(t) : t \in MergeTimes }

\* item k of the listing, with merged_at m
PullRequest(k, m) ==
    [number |-> k, title |-> <<"title", k>>,
     login |-> IF k % 2 = 1 THEN "alice" ELSE "erin",
     merged_at |-> m, html_url |-> <<"pull", k>>]

Bodies ==
    { <<"p", "l", "e", "a", "s", "e", " ">> \o FORCE_MERGE \o <<" ", "t", "h", "i", "s">>,
      <<"f", "o", "r", "c", "e", "_", "m", "e", "r", "g", "e">> }

RECURSIVE FetchedComments(_)
\* the comments of every comment list a log of requests returned, in order
FetchedComments(log) ==
    IF log = <<>> THEN <<>>
    ELSE FetchedComments(SubSeq(log, 1, Len(log) - 1))
             \o (IF log[Len(log)].kind = "comments" THEN log[Len(log)].data ELSE <<>>)

\* the comment lists the platform may answer a comment request with, after
\* it returned fetched comments; comment i of a list is by commenter i
CommentLists(fetched) ==
    UNION { { [i \in 1..n |-> [login |-> <<"commenter", i>>, body |-> b[i]]] :
                b \in [1..n -> Bodies] } : n \in 0..(MaxComments - fetched) }

RECURSIVE FetchedItems(_)
\* the items of every page a log of requests returned, in order
FetchedItems(log) ==
    IF log = <<>> THEN <<>>
    ELSE FetchedItems(SubSeq(log, 1, Len(log) - 1))
             \o (IF log[Len(log)].kind = "pulls" THEN log[Len(log)].data ELSE <<>>)

\* the pages the platform may answer request number p with
Pages(p, fetched) ==
    IF p > MaxPages THEN {<<>>}
    ELSE UNION { { [i \in 1..n |-> PullRequest(fetched + i, m[i])] :
                     m \in [1..n -> MergedAtValues] } : n \in 0..(MaxItems - fetched) }

-----------------------------------------------------------------------------
(* The run.                                                                *)

Init ==
    /\ \E w \in Windows : start_date = w[1] /\ end_arg = w[2]
    /\ end_date = None
    /\ pc = "resolve"
    /\ page = 1
    /\ shouldContinue = TRUE
    /\ data = <<>>
    /\ idx = 1
    /\ merged_at = None
    /\ prs = <<>>
    /\ prIdx = 1
    /\ pr_merged_at = None
    /\ force_merged_prs = <<>>
    /\ requests = <<>>
    /\ output = <<>>
    /\ error = "none"

\* main, line 86: end_date = calculate_enddate_if_needed(start_date, end_date)
ResolveWindow ==
    /\ pc = "resolve"
    /\ LET end == calculate_enddate_if_needed(start_date, end_arg)
       IN  IF end = OverflowError
           THEN /\ error' = "OverflowError"
                /\ pc' = "failed"
                /\ UNCHANGED end_date
           ELSE /\ end_date' = end
                /\ pc' = "request"
                /\ UNCHANGED error
    /\ UNCHANGED <<start_date, end_arg, page, shouldContinue, data, idx, merged_at,
                   prs, prIdx, pr_merged_at, force_merged_prs, requests, output>>

\* a response whose status is never looked at
status_ignored(ok) == "none"

\* response.raise_for_status(): the exception a response raises
raise_for_status(ok) == IF ok THEN "none" ELSE "HTTPError"

\* get_merged_prs, lines 19-35: one request of the while loop
RequestPage ==
    /\ pc = "request"
    /\ \E ok \in BOOLEAN : \E d \in Pages(page, Len(FetchedItems(requests))) :
         /\ requests' = Append(requests,
                [kind |-> "pulls", page |-> page, ok |-> ok,
                 data |-> IF ok THEN d ELSE <<>>])
         /\ IF raise_for_status(ok) # "none"
            THEN /\ error' = raise_for_status(ok)
                 /\ pc' = "failed"
                 /\ UNCHANGED <<data, idx>>
            ELSE /\ data' = d
                 /\ idx' = 1
                 /\ pc' = IF d = <<>> THEN "scan" ELSE "items"
                 /\ UNCHANGED error
    /\ UNCHANGED <<start_date, end_arg, end_date, page, shouldContinue, merged_at,
                   prs, prIdx, pr_merged_at, force_merged_prs, output>>

\* the value of the local merged_at after lines 38-39 for item pr
merged_at_after(pr, before) ==
    IF pr.merged_at # None THEN strptime(pr.merged_at) ELSE before

\* prs after lines 38-48 for item pr
prs_after(pr, list, start, end) ==
    IF pr.merged_at # None /\ in_window(start, strptime(pr.merged_at), end)
    THEN Append(list, pr)
    ELSE list

\* get_merged_prs, lines 37-51: one iteration of the for loop
ProcessItem ==
    /\ pc = "items"
    /\ idx <= Len(data)
    /\ LET pr == data[idx]
           m  == merged_at_after(pr, merged_at)
       IN  /\ prs' = prs_after(pr, prs, start_date, end_date)
           /\ merged_at' = m
           /\ IF m = None
              THEN \* line 50 reads merged_at before any assignment to it
                   /\ error' = "UnboundLocalError"
                   /\ pc' = "failed"
                   /\ UNCHANGED <<shouldContinue, idx>>
              ELSE /\ shouldContinue' = IF lt(m, start_date) THEN FALSE ELSE shouldContinue
                   /\ idx' = idx + 1
                   /\ UNCHANGED <<error, pc>>
    /\ UNCHANGED <<start_date, end_arg, end_date, page, data, prIdx, pr_merged_at,
                   force_merged_prs, requests, output>>

\* a loop that ignores shouldContinue
keep_paging(flag) == TRUE

\* a loop that never advances the page
same_page(p) == p

\* page += 1, line 53
next_page(p) == p + 1

\* the test of the while loop, line 19
loop_test(flag) == flag

\* get_merged_prs, lines 53, 19 and 55: the end of a page
EndPage ==
    /\ pc = "items"
    /\ idx > Len(data)
    /\ page' = next_page(page)
    /\ pc' = IF loop_test(shouldContinue) THEN "request" ELSE "scan"
    /\ UNCHANGED <<start_date, end_arg, end_date, shouldContinue, data, idx, merged_at,
                   prs, prIdx, pr_merged_at, force_merged_prs, requests, output, error>>

\* the record of lines 104-113
ForceMergeRecord(pr, comment) ==
    [repo |-> repo, pr_number |-> pr.number, title |-> pr.title, author |-> pr.login,
     commenter |-> comment.login, comment_body |-> comment.body,
     merged_at |-> pr.merged_at, url |-> pr.html_url]

RECURSIVE scan_comments(_, _, _)
\* lines 102-113: the records after the comments of pr, from records acc
scan_comments(pr, comments, acc) ==
    IF comments = <<>> THEN acc
    ELSE scan_comments(pr, Tail(comments),
             IF contains(FORCE_MERGE, Head(comments).body)
             THEN Append(acc, ForceMergeRecord(pr, Head(comments)))
             ELSE acc)

\* main, lines 96-113: one iteration of the loop over merged_prs
ScanPR ==
    /\ pc = "scan"
    /\ prIdx <= Len(prs)
    /\ LET pr == prs[prIdx]
       IN  /\ pr_merged_at' = pr.merged_at
           /\ \E ok \in BOOLEAN : \E comments \in CommentLists(Len(FetchedComments(requests))) :
                /\ requests' = Append(requests,
                       [kind |-> "comments", number |-> pr.number, ok |-> ok,
                        data |-> IF ok THEN comments ELSE <<>>])
                /\ IF raise_for_status(ok) # "none"
                   THEN /\ error' = raise_for_status(ok)
                        /\ pc' = "failed"
                        /\ UNCHANGED <<force_merged_prs, prIdx>>
                   ELSE /\ force_merged_prs' =
                               scan_comments(pr, comments, force_merged_prs)
                        /\ prIdx' = prIdx + 1
                        /\ UNCHANGED <<error, pc>>
    /\ UNCHANGED <<start_date, end_arg, end_date, page, shouldContinue, data, idx,
                   merged_at, prs, output>>

\* lines 119-123: the block printed for record r
text_block(r, merged) ==
    [kind |-> "block", repo |-> r.repo, pr_number |-> r.pr_number, author |-> r.author,
     title |-> r.title, date |-> split_T_0(merged),
     commenter |-> r.commenter, comment_body |-> r.comment_body, url |-> r.url]

\* main, lines 115-123: the report, as JSON or as text
Report ==
    /\ pc = "scan"
    /\ prIdx > Len(prs)
    /\ \E output_json \in BOOLEAN :
         output' = IF output_json
                   THEN <<[kind |-> "json", records |-> force_merged_prs]>>
                   ELSE <<[kind |-> "header"]>>
                            \o [i \in 1..Len(force_merged_prs) |->
                                   text_block(force_merged_prs[i], pr_merged_at)]
    /\ pc' = "done"
    /\ UNCHANGED <<start_date, end_arg, end_date, page, shouldContinue, data, idx,
                   merged_at, prs, prIdx, pr_merged_at, force_merged_prs, requests,
                   error>>

Next ==
    \/ ResolveWindow
    \/ RequestPage
    \/ ProcessItem
    \/ EndPage
    \/ ScanPR
    \/ Report

Spec == Init /\ [][Next]_vars

-----------------------------------------------------------------------------
(* calculate_enddate_if_needed over the calendar.                          *)

\* leap, century, four-century and common years, and both ends of datetime
Years == {1, 1900, 2000, 2023, 2024, 9999}

\* the Gregorian calendar, as strptime of line 128 accepts a date
is_leap_year(y) == y % 400 = 0 \/ (y % 4 = 0 /\ y % 100 # 0)

days_in_month(y, m) ==
    CASE m \in {4, 6, 9, 11} -> 30
      [] m = 2 -> IF is_leap_year(y) THEN 29 ELSE 28
      [] OTHER -> 31

\* --startdate: every date of Years, at 00:00:00.000000
StartDates ==
    { dt \in { midnight(y, m, d) : y \in Years, m \in 1..12, d \in 1..31 } :
        dt[3] <= days_in_month(dt[1], dt[2]) }

InitDate ==
    /\ start_date \in StartDates
    /\ end_arg \in {None, end_of_day(midnight(2024, 3, 15))}
    /\ end_date = None
    /\ pc = "resolve"
    /\ page = 1
    /\ shouldContinue = TRUE
    /\ data = <<>>
    /\ idx = 1
    /\ merged_at = None
    /\ prs = <<>>
    /\ prIdx = 1
    /\ pr_merged_at = None
    /\ force_merged_prs = <<>>
    /\ requests = <<>>
    /\ output = <<>>
    /\ error = "none"

NextDate == ResolveWindow

SpecDate == InitDate /\ [][NextDate]_vars

-----------------------------------------------------------------------------
(* Properties.                                                             *)

\* a is an earlier moment than b
Earlier(a, b) ==
    \E i \in 1..7 : a[i] < b[i] /\ \A j \in 1..(i - 1) : a[j] = b[j]

NotAfter(a, b) == a = b \/ Earlier(a, b)

\* the day after the date d = <<year, month, day>>
NextDay(d) ==
    IF d[3] < days_in_month(d[1], d[2]) THEN <<d[1], d[2], d[3] + 1>>
    ELSE IF d[2] < 12 THEN <<d[1], d[2] + 1, 1>>
    ELSE <<d[1] + 1, 1, 1>>

RECURSIVE DaysAfter(_, _)
\* the date n days after the date d
DaysAfter(d, n) == IF n = 0 THEN d ELSE DaysAfter(NextDay(d), n - 1)

LastMicrosecondOf(d) == <<d[1], d[2], d[3], 23, 59, 59, 999999>>

StartDay == <<start_date[1], start_date[2], start_date[3]>>

\* the end of the date window of the arguments w = <<start, end>>
EndOf(w) ==
    IF w[2] # None THEN w[2]
    ELSE IF w[1][3] = 1
    THEN LastMicrosecondOf(<<w[1][1], w[1][2], days_in_month(w[1][1], w[1][2])>>)
    ELSE LastMicrosecondOf(DaysAfter(<<w[1][1], w[1][2], w[1][3]>>, 30))

WindowEnds == [w \in Windows |-> EndOf(w)]

\* the end of the date window of the run
ResolvedEnd == WindowEnds[<<start_date, end_arg>>]

\* the merge times with the text the platform renders each as
Rendered == { <<isoformat_z(t), t>> : t \in MergeTimes }

\* the item has a merge time within [start_date, end]
MergedWithin(item, end) ==
    /\ item.merged_at # None
    /\ \E r \in Rendered :
         /\ r[1] = item.merged_at
         /\ NotAfter(start_date, r[2])
         /\ NotAfter(r[2], end)

MergedInWindow(item) == MergedWithin(item, end_date)

\* the item has a merge time earlier than start_date
MergedBeforeStart(item) ==
    /\ item.merged_at # None
    /\ \E r \in Rendered : r[1] = item.merged_at /\ Earlier(r[2], start_date)

IsPulls(r) == r.kind = "pulls"

PullsRequests == SelectSeq(requests, IsPulls)

IsCommentsResponse(r) == r.kind = "comments" /\ r.ok

CommentResponses == SelectSeq(requests, IsCommentsResponse)

Fetched == FetchedItems(requests)

Range(f) == { f[i] : i \in DOMAIN f }

\* get_merged_prs has returned its list
FetchReturned ==
    \/ pc \in {"scan", "done"}
    \/ pc = "failed" /\ requests # <<>> /\ requests[Len(requests)].kind = "comments"

\* C1: once get_merged_prs has returned, its list is exactly the items of the
\* fetched pages, in order, that have a merge time T with start <= T <= end,
\* both bounds included.
C1_InclusiveWindow ==
    FetchReturned => prs = SelectSeq(Fetched, MergedInWindow)

\* C1: a run that fetched an item merged exactly at the start, which is
\* kept, and an item merged one second after the end, which is not
C1_Witness ==
    /\ FetchReturned
    /\ start_date = midnight(2024, 3, 1)
    /\ end_date = <<2024, 3, 31, 23, 59, 59, 999999>>
    /\ \E i, j \in DOMAIN Fetched :
         /\ Fetched[i].merged_at = isoformat_z(<<2024, 3, 1, 0, 0, 0, 0>>)
         /\ Fetched[i] \in Range(prs)
         /\ Fetched[j].merged_at = isoformat_z(<<2024, 4, 1, 0, 0, 0, 0>>)
         /\ Fetched[j] \notin Range(prs)

\* C2: after a page that holds an item merged before the window start, no
\* further page of the listing is requested.
C2_EarlyStop ==
    \A i \in DOMAIN requests :
        (/\ requests[i].kind = "pulls"
         /\ \E k \in DOMAIN requests[i].data : MergedBeforeStart(requests[i].data[k]))
        => \A j \in DOMAIN requests : j > i => requests[j].kind # "pulls"

\* C2: a finished run whose first page held one item, merged before the
\* start, and that requested no second page although one could hold items
C2_Witness ==
    /\ pc = "done"
    /\ Len(PullsRequests) = 1
    /\ Len(PullsRequests[1].data) = 1
    /\ MergedBeforeStart(PullsRequests[1].data[1])
    /\ page = 2
    /\ page <= MaxPages
    /\ Len(Fetched) < MaxItems

\* C3: an item without a merge time is skipped: the list is left as it is,
\* no error is raised and the loop goes on to the next item.
C3_SkipsUnmerged ==
    [][(pc = "items" /\ idx <= Len(data) /\ data[idx].merged_at = None)
        => (prs' = prs /\ error' = "none" /\ idx' = idx + 1)]_vars

\* C4: a request that returned a non-success status is the last request of
\* the run, the run has failed with the HTTP error and nothing was printed.
C4_AbortOnFailure ==
    \A i \in DOMAIN requests :
        ~requests[i].ok =>
            /\ i = Len(requests)
            /\ pc = "failed"
            /\ error = "HTTPError"
            /\ output = <<>>

\* C4: a run that failed on a comment request after it collected records
C4_Witness ==
    /\ pc = "failed"
    /\ error = "HTTPError"
    /\ force_merged_prs # <<>>
    /\ requests[Len(requests)].kind = "comments"
    /\ ~requests[Len(requests)].ok
    /\ output = <<>>

\* C5: the pages are requested as 1, 2, 3, ...; a page without items is the
\* last one requested and get_merged_prs returns after it; a full first page
\* merged at or after the start followed by an empty second page makes two
\* requests.
C5_Pagination ==
    LET P == PullsRequests
    IN  /\ \A i \in DOMAIN P : P[i].page = i
        /\ \A i \in DOMAIN P :
              (P[i].ok /\ P[i].data = <<>>) => (i = Len(P) /\ FetchReturned)
        /\ (/\ Len(P) >= 2
            /\ Len(P[1].data) = MaxItems
            /\ \A k \in DOMAIN P[1].data :
                  /\ P[1].data[k].merged_at # None
                  /\ ~MergedBeforeStart(P[1].data[k])
            /\ P[2].ok
            /\ P[2].data = <<>>)
           => (Len(P) = 2 /\ FetchReturned)

\* C5: a finished run of two requests: a full first page, every item merged
\* at or after the start, and an empty second page
C5_Witness ==
    LET P == PullsRequests
    IN  /\ pc = "done"
        /\ Len(P) = 2
        /\ Len(P[1].data) = MaxItems
        /\ \A k \in DOMAIN P[1].data :
              /\ P[1].data[k].merged_at # None
              /\ ~MergedBeforeStart(P[1].data[k])
        /\ P[2].ok
        /\ P[2].data = <<>>

\* C6: in text mode the block of each record shows the date part of that
\* record's own merged-at.
C6_DateOfOwnRecord ==
    (pc = "done" /\ output[1].kind = "header") =>
        \A i \in DOMAIN force_merged_prs :
            /\ output[i + 1].pr_number = force_merged_prs[i].pr_number
            /\ output[i + 1].date = SubSeq(force_merged_prs[i].merged_at, 1, 10)

\* the body holds the marker as a substring, case-sensitive
HasMarker(c) ==
    \E i \in 0..(Len(c.body) - Len(FORCE_MERGE)) :
        \A k \in 1..Len(FORCE_MERGE) : c.body[i + k] = FORCE_MERGE[k]

\* the records of the k-th pull request of prs, from its comment response
RecordsOf(k) ==
    LET pr == prs[k]
        ms == SelectSeq(CommentResponses[k].data, HasMarker)
    IN  [i \in 1..Len(ms) |->
            [repo |-> repo, pr_number |-> pr.number, title |-> pr.title,
             author |-> pr.login, commenter |-> ms[i].login,
             comment_body |-> ms[i].body, merged_at |-> pr.merged_at,
             url |-> pr.html_url]]

RECURSIVE WalkRecords(_)
\* the records of the first k pull requests of prs
WalkRecords(k) == IF k = 0 THEN <<>> ELSE WalkRecords(k - 1) \o RecordsOf(k)

\* C7: the records are those of a walk over the pull requests in fetch order
\* and over each one's comments in returned order, one record for every
\* comment that holds FORCE_MERGE; a finished run walked every pull request.
C7_RecordsInOrder ==
    LET n == Len(CommentResponses)
    IN  /\ n <= Len(prs)
        /\ \A k \in 1..n : CommentResponses[k].number = prs[k].number
        /\ force_merged_prs = WalkRecords(n)
        /\ pc = "done" => n = Len(prs)

\* C7: a finished run over two pull requests and four comments, three of
\* which hold the marker and one of which is "force_merge"
C7_Witness ==
    /\ pc = "done"
    /\ Len(prs) = 2
    /\ Len(force_merged_prs) = 3
    /\ \E k \in DOMAIN CommentResponses :
         /\ Len(CommentResponses[k].data) = 2
         /\ \E c \in Range(CommentResponses[k].data) : ~HasMarker(c)

\* C8: every record collected carries the number and merged-at of a fetched
\* pull request merged within [start, end] of the resolved window.
C8_RecordsInWindow ==
    LET end   == ResolvedEnd
        items == Fetched
    IN  \A i \in DOMAIN force_merged_prs :
            \E k \in DOMAIN items :
                /\ items[k].number = force_merged_prs[i].pr_number
                /\ items[k].merged_at = force_merged_prs[i].merged_at
                /\ MergedWithin(items[k], end)

\* C8: a run that collected a record while another fetched item was merged
\* outside the window
C8_Witness ==
    /\ force_merged_prs # <<>>
    /\ \E k \in DOMAIN Fetched :
         Fetched[k].merged_at # None /\ ~MergedWithin(Fetched[k], ResolvedEnd)

=============================================================================
